---- MODULE Spec2Model ----
(***************************************************************************)
(* Model of the prefix-trie map's entry API (src/src/map/entry.rs).        *)
(*                                                                         *)
(* A PrefixMap is an arena `table` of nodes addressed by index; node 0 is  *)
(* the root.  Prefixes are bit strings (sequences over {0,1}).  Option<X>  *)
(* is modelled as a sequence of length at most one: None is <<>> and       *)
(* Some(x) is <<x>>.                                                       *)
(***************************************************************************)
EXTENDS Integers, Sequences, FiniteSets

\* ---------------------------------------------------------------- bounds
MaxLen == 2        \* longest prefix, in bits
MaxNodes == 3      \* a commit allocates only while the arena is smaller
NumValues == 2     \* number of distinct values stored

\* ---------------------------------------------------------------- Option
None == <<>>
Some(x) == <<x>>
is_some(o) == o /= None
unwrap(o) == o[1]

Values == 1..NumValues

RECURSIVE BitStrings(_)
BitStrings(n) ==
  IF n = 0 THEN {<<>>}
  ELSE LET S == BitStrings(n - 1)
       IN  S \cup {Append(s, b) : s \in {x \in S : Len(x) = n - 1}, b \in {0, 1}}

\* every key the callers may pass
Keys == BitStrings(MaxLen)

\* ------------------------------------------------------ Prefix capability
prefix_len(p) == Len(p)

\* bit of p at (0-based) position i
bit_at(p, i) == p[i + 1]

\* p is an ancestor of q, or equal to it
contains(p, q) == Len(p) <= Len(q) /\ SubSeq(q, 1, Len(p)) = p

RECURSIVE common_prefix_len(_, _)
common_prefix_len(p, q) ==
  IF p = <<>> \/ q = <<>> \/ Head(p) /= Head(q) THEN 0
  ELSE 1 + common_prefix_len(Tail(p), Tail(q))

longest_common_prefix(p, q) == SubSeq(p, 1, common_prefix_len(p, q))

\* which side of a node with prefix branch_p the prefix child_p lives on
to_right(branch_p, child_p) == bit_at(child_p, prefix_len(branch_p)) = 1

\* ------------------------------------------------------------- the arena
Node(p, v) == [prefix |-> p, value |-> v, left |-> None, right |-> None]

Size(t) == Cardinality(DOMAIN t)

EmptyMap == [i \in {0} |-> Node(<<>>, None)]

get_child(t, idx, right) == IF right THEN t[idx].right ELSE t[idx].left

\* appends a node; the new index is the old size of the arena
new_node(t, p, v) ==
  [table |-> [i \in 0..Size(t) |-> IF i < Size(t) THEN t[i] ELSE Node(p, v)],
   idx   |-> Size(t)]

\* links child below idx on the given side and returns the child it replaced
set_child(t, idx, child, right) ==
  [table |-> IF right THEN [t EXCEPT ![idx].right = Some(child)]
                      ELSE [t EXCEPT ![idx].left = Some(child)],
   old   |-> get_child(t, idx, right)]

\* ----------------------------------------------------- direction resolver
Dir(tag, right, aux, bp, next) ==
  [tag |-> tag, right |-> right, aux |-> aux, branch_prefix |-> bp, next |-> next]

Reached == Dir("Reached", FALSE, FALSE, <<>>, 0)
NewLeaf(right) == Dir("NewLeaf", right, FALSE, <<>>, 0)
\* aux is child_right
NewChild(right, child_right) == Dir("NewChild", right, child_right, <<>>, 0)
\* aux is prefix_right
NewBranch(bp, right, prefix_right) == Dir("NewBranch", right, prefix_right, bp, 0)
Enter(next, right) == Dir("Enter", right, FALSE, <<>>, next)

get_direction_for_insert(t, idx, prefix) ==
  LET cur_p == t[idx].prefix IN
  IF cur_p = prefix THEN Reached
  ELSE
    LET right == to_right(cur_p, prefix)
        c     == get_child(t, idx, right)
    IN
    IF ~is_some(c) THEN NewLeaf(right)
    ELSE
      LET child_p == t[unwrap(c)].prefix IN
      IF contains(child_p, prefix) THEN Enter(unwrap(c), right)
      ELSE IF contains(prefix, child_p) THEN NewChild(right, to_right(prefix, child_p))
      ELSE LET bp == longest_common_prefix(prefix, child_p)
           IN  NewBranch(bp, right, to_right(bp, prefix))

\* the walk of entry(): follow Enter until a terminal direction
RECURSIVE walk(_, _, _)
walk(t, idx, prefix) ==
  LET d == get_direction_for_insert(t, idx, prefix) IN
  IF d.tag = "Enter" THEN walk(t, d.next, prefix)
  ELSE [idx |-> idx, direction |-> d]

\* ------------------------------------------------------------ Entry views
NoEntry == [kind |-> "None", prefix |-> <<>>, idx |-> 0, direction |-> Reached]
VacantEntry(p, idx, d) == [kind |-> "Vacant", prefix |-> p, idx |-> idx, direction |-> d]
OccupiedEntry(idx) == [kind |-> "Occupied", prefix |-> <<>>, idx |-> idx, direction |-> Reached]

map_entry(t, prefix) ==
  LET w == walk(t, 0, prefix) IN
  IF w.direction.tag = "Reached" /\ is_some(t[w.idx].value)
  THEN OccupiedEntry(w.idx)
  ELSE VacantEntry(prefix, w.idx, w.direction)

\* exact-match lookup
RECURSIVE get_from(_, _, _)
get_from(t, idx, key) ==
  LET p == t[idx].prefix IN
  IF p = key THEN t[idx].value
  ELSE IF ~contains(p, key) THEN None
  ELSE LET c == get_child(t, idx, to_right(p, key))
       IN  IF is_some(c) THEN get_from(t, unwrap(c), key) ELSE None

map_get(t, key) == get_from(t, 0, key)

\* ------------------------------------------------- committing an entry
\* result of a commit: the arena afterwards, the node the returned reference
\* points to, and whether an unwrap()/unreachable!() was hit on the way
Commit(t, node, panic) == [table |-> t, node |-> node, panic |-> panic]

\* faulty variant of insert_Reached: allocates a second node for the key
insert_Reached_duplicates(t, e, v) ==
  LET n == new_node(t, e.prefix, Some(v))
      s == set_child(n.table, e.idx, n.idx, FALSE)
  IN  Commit(s.table, n.idx, FALSE)

\* arm Reached: the node exists, only its value is set
insert_Reached(t, e, v) ==
  Commit([t EXCEPT ![e.idx].value = Some(v)], e.idx, FALSE)

\* arm NewLeaf { right }
insert_NewLeaf(t, e, v) ==
  LET n == new_node(t, e.prefix, Some(v))
      s == set_child(n.table, e.idx, n.idx, e.direction.right)
  IN  Commit(s.table, n.idx, FALSE)

\* faulty variant of insert_NewChild: the replaced child is not linked back
insert_NewChild_drops_child(t, e, v) ==
  LET n  == new_node(t, e.prefix, Some(v))
      s1 == set_child(n.table, e.idx, n.idx, e.direction.right)
  IN  Commit(s1.table, n.idx, ~is_some(s1.old))

\* faulty variant of insert_NewChild: the replaced child goes to the other side
insert_NewChild_wrong_side(t, e, v) ==
  LET n  == new_node(t, e.prefix, Some(v))
      s1 == set_child(n.table, e.idx, n.idx, e.direction.right)
  IN  IF ~is_some(s1.old) THEN Commit(s1.table, n.idx, TRUE)
      ELSE Commit(set_child(s1.table, n.idx, unwrap(s1.old), ~e.direction.aux).table,
                  n.idx, FALSE)

\* faulty variant of insert_NewChild: the new node is linked below itself
insert_NewChild_links_self(t, e, v) ==
  LET n  == new_node(t, e.prefix, Some(v))
      s1 == set_child(n.table, e.idx, n.idx, e.direction.right)
  IN  IF ~is_some(s1.old) THEN Commit(s1.table, n.idx, TRUE)
      ELSE Commit(set_child(s1.table, n.idx, n.idx, e.direction.aux).table,
                  n.idx, FALSE)

\* arm NewChild { right, child_right }
insert_NewChild(t, e, v) ==
  LET n  == new_node(t, e.prefix, Some(v))
      s1 == set_child(n.table, e.idx, n.idx, e.direction.right)
  IN  IF ~is_some(s1.old) THEN Commit(s1.table, n.idx, TRUE)
      ELSE Commit(set_child(s1.table, n.idx, unwrap(s1.old), e.direction.aux).table,
                  n.idx, FALSE)

\* faulty variant of insert_NewBranch: the two children of the branch swapped
insert_NewBranch_sides_swapped(t, e, v) ==
  LET d  == e.direction
      b  == new_node(t, d.branch_prefix, None)
      n  == new_node(b.table, e.prefix, Some(v))
      s1 == set_child(n.table, e.idx, b.idx, d.right)
  IN  IF ~is_some(s1.old) THEN Commit(s1.table, n.idx, TRUE)
      ELSE LET s2 == set_child(s1.table, b.idx, n.idx, ~d.aux)
               s3 == set_child(s2.table, b.idx, unwrap(s1.old), d.aux)
           IN  Commit(s3.table, n.idx, FALSE)

\* faulty variant of insert_NewBranch: the branch is given the key's prefix
insert_NewBranch_key_prefix(t, e, v) ==
  LET d  == e.direction
      b  == new_node(t, e.prefix, None)
      n  == new_node(b.table, e.prefix, Some(v))
      s1 == set_child(n.table, e.idx, b.idx, d.right)
  IN  IF ~is_some(s1.old) THEN Commit(s1.table, n.idx, TRUE)
      ELSE LET s2 == set_child(s1.table, b.idx, n.idx, d.aux)
               s3 == set_child(s2.table, b.idx, unwrap(s1.old), ~d.aux)
           IN  Commit(s3.table, n.idx, FALSE)

\* faulty variant of insert_NewBranch: the value is stored in the branch and
\* no node is allocated for the key
insert_NewBranch_single_node(t, e, v) ==
  LET d  == e.direction
      b  == new_node(t, d.branch_prefix, Some(v))
      s1 == set_child(b.table, e.idx, b.idx, d.right)
  IN  IF ~is_some(s1.old) THEN Commit(s1.table, b.idx, TRUE)
      ELSE LET s3 == set_child(s1.table, b.idx, unwrap(s1.old), ~d.aux)
           IN  Commit(s3.table, b.idx, FALSE)

\* faulty variant of insert_NewBranch: the branch node is given the value too
insert_NewBranch_valued_branch(t, e, v) ==
  LET d  == e.direction
      b  == new_node(t, d.branch_prefix, Some(v))
      n  == new_node(b.table, e.prefix, Some(v))
      s1 == set_child(n.table, e.idx, b.idx, d.right)
  IN  IF ~is_some(s1.old) THEN Commit(s1.table, n.idx, TRUE)
      ELSE LET s2 == set_child(s1.table, b.idx, n.idx, d.aux)
               s3 == set_child(s2.table, b.idx, unwrap(s1.old), ~d.aux)
           IN  Commit(s3.table, n.idx, FALSE)

\* faulty variant of insert_NewBranch: the key's node, not the branch, takes
\* the slot of the old child
insert_NewBranch_double_link(t, e, v) ==
  LET d  == e.direction
      b  == new_node(t, d.branch_prefix, None)
      n  == new_node(b.table, e.prefix, Some(v))
      s1 == set_child(n.table, e.idx, n.idx, d.right)
  IN  IF ~is_some(s1.old) THEN Commit(s1.table, n.idx, TRUE)
      ELSE LET s2 == set_child(s1.table, b.idx, n.idx, d.aux)
               s3 == set_child(s2.table, b.idx, unwrap(s1.old), ~d.aux)
           IN  Commit(s3.table, n.idx, FALSE)

\* faulty variant of insert_NewBranch: the key's node always goes to the right
\* of the branch
insert_NewBranch_new_on_right(t, e, v) ==
  LET d  == e.direction
      b  == new_node(t, d.branch_prefix, None)
      n  == new_node(b.table, e.prefix, Some(v))
      s1 == set_child(n.table, e.idx, b.idx, d.right)
  IN  IF ~is_some(s1.old) THEN Commit(s1.table, n.idx, TRUE)
      ELSE LET s2 == set_child(s1.table, b.idx, n.idx, TRUE)
               s3 == set_child(s2.table, b.idx, unwrap(s1.old), FALSE)
           IN  Commit(s3.table, n.idx, FALSE)

\* arm NewBranch { branch_prefix, right, prefix_right }
insert_NewBranch(t, e, v) ==
  LET d  == e.direction
      b  == new_node(t, d.branch_prefix, None)
      n  == new_node(b.table, e.prefix, Some(v))
      s1 == set_child(n.table, e.idx, b.idx, d.right)
  IN  IF ~is_some(s1.old) THEN Commit(s1.table, n.idx, TRUE)
      ELSE LET s2 == set_child(s1.table, b.idx, n.idx, d.aux)
               s3 == set_child(s2.table, b.idx, unwrap(s1.old), ~d.aux)
           IN  Commit(s3.table, n.idx, FALSE)

\* VacantEntry::_insert; the Enter arm is unreachable!()
VacantEntry__insert(t, e, v) ==
  CASE e.direction.tag = "Reached"   -> insert_Reached(t, e, v)
    [] e.direction.tag = "NewLeaf"   -> insert_NewLeaf(t, e, v)
    [] e.direction.tag = "NewChild"  -> insert_NewChild(t, e, v)
    [] e.direction.tag = "NewBranch" -> insert_NewBranch(t, e, v)
    [] OTHER -> Commit(t, e.idx, TRUE)

\* result of an operation: arena afterwards, returned value (an Option; a
\* plain T or &T is reported as Some(x)), and whether the call panicked
Result(t, ret, panic) == [table |-> t, ret |-> ret, panic |-> panic]

\* faulty variant of Entry_get: a vacant entry reads the node where the walk
\* stopped, the nearest ancestor of the key
Entry_get_nearest(t, e) ==
  t[e.idx].value

\* Entry::get
Entry_get(t, e) ==
  IF e.kind = "Vacant" THEN None ELSE t[e.idx].value

Entry_key(t, e) ==
  IF e.kind = "Vacant" THEN e.prefix ELSE t[e.idx].prefix

\* faulty variant of Entry_insert: an occupied entry returns the new value
Entry_insert_returns_new(t, e, v) ==
  IF e.kind = "Vacant"
  THEN LET c == VacantEntry__insert(t, e, v) IN Result(c.table, None, c.panic)
  ELSE Result([t EXCEPT ![e.idx].value = Some(v)], Some(v), FALSE)

Entry_insert(t, e, v) ==
  IF e.kind = "Vacant"
  THEN LET c == VacantEntry__insert(t, e, v) IN Result(c.table, None, c.panic)
  ELSE Result([t EXCEPT ![e.idx].value = Some(v)], t[e.idx].value, FALSE)

\* faulty variant of Entry_or_insert: an occupied entry is overwritten
Entry_or_insert_overwrites(t, e, default) ==
  IF e.kind = "Vacant"
  THEN LET c == VacantEntry__insert(t, e, default)
       IN  Result(c.table, c.table[c.node].value,
                  c.panic \/ ~is_some(c.table[c.node].value))
  ELSE Result([t EXCEPT ![e.idx].value = Some(default)], Some(default), FALSE)

Entry_or_insert(t, e, default) ==
  IF e.kind = "Vacant"
  THEN LET c == VacantEntry__insert(t, e, default)
       IN  Result(c.table, c.table[c.node].value,
                  c.panic \/ ~is_some(c.table[c.node].value))
  ELSE IF is_some(t[e.idx].value)
       THEN Result(t, t[e.idx].value, FALSE)
       ELSE Result([t EXCEPT ![e.idx].value = Some(default)], Some(default), FALSE)

\* result of an operation that takes a closure: calls counts its invocations
ResultF(t, ret, panic, calls) ==
  [table |-> t, ret |-> ret, panic |-> panic, calls |-> calls]

\* Entry::get_mut: the reference is reported by the value it points to
Entry_get_mut(t, e) ==
  IF e.kind = "Vacant" THEN None ELSE t[e.idx].value

\* faulty variant of Entry_or_insert_with: the closure is evaluated before the
\* entry is matched
Entry_or_insert_with_eager(t, e, default) ==
  IF e.kind = "Vacant"
  THEN LET c == VacantEntry__insert(t, e, default)
       IN  ResultF(c.table, c.table[c.node].value,
                   c.panic \/ ~is_some(c.table[c.node].value), 1)
  ELSE IF is_some(t[e.idx].value)
       THEN ResultF(t, t[e.idx].value, FALSE, 1)
       ELSE ResultF([t EXCEPT ![e.idx].value = Some(default)], Some(default), FALSE, 1)

\* Entry::or_insert_with; default is the value the closure returns
Entry_or_insert_with(t, e, default) ==
  IF e.kind = "Vacant"
  THEN LET c == VacantEntry__insert(t, e, default)
       IN  ResultF(c.table, c.table[c.node].value,
                   c.panic \/ ~is_some(c.table[c.node].value), 1)
  ELSE IF is_some(t[e.idx].value)
       THEN ResultF(t, t[e.idx].value, FALSE, 0)
       ELSE ResultF([t EXCEPT ![e.idx].value = Some(default)], Some(default), FALSE, 1)

\* the value of Default::default() in the doctests (T = i32)
DefaultValue == 0

\* Entry::or_default
Entry_or_default(t, e) == Entry_or_insert_with(t, e, DefaultValue)

\* faulty variant of Entry_and_modify: a vacant entry applies f to the node
\* where the walk stopped
Entry_and_modify_nearest(t, e, f) ==
  IF is_some(t[e.idx].value)
  THEN [table |-> [t EXCEPT ![e.idx].value = Some(f[unwrap(t[e.idx].value)])],
        ent |-> e, calls |-> 1]
  ELSE [table |-> t, ent |-> e, calls |-> 0]

\* faulty variant of Entry_and_modify: a vacant entry is committed with a value
\* the closure produces and handed back as the same Vacant entry
Entry_and_modify_materializes(t, e, f) ==
  IF e.kind = "Vacant"
  THEN [table |-> VacantEntry__insert(t, e, f[1]).table, ent |-> e, calls |-> 1]
  ELSE IF is_some(t[e.idx].value)
       THEN [table |-> [t EXCEPT ![e.idx].value = Some(f[unwrap(t[e.idx].value)])],
             ent |-> e, calls |-> 1]
       ELSE [table |-> t, ent |-> e, calls |-> 0]

\* Entry::and_modify; f is a function on values, the entry is returned as it is
Entry_and_modify(t, e, f) ==
  IF e.kind = "Vacant"
  THEN [table |-> t, ent |-> e, calls |-> 0]
  ELSE IF is_some(t[e.idx].value)
       THEN [table |-> [t EXCEPT ![e.idx].value = Some(f[unwrap(t[e.idx].value)])],
             ent |-> e, calls |-> 1]
       ELSE [table |-> t, ent |-> e, calls |-> 0]

VacantEntry_insert(t, e, default) ==
  LET c == VacantEntry__insert(t, e, default)
  IN  Result(c.table, c.table[c.node].value,
             c.panic \/ ~is_some(c.table[c.node].value))

OccupiedEntry_get(t, e) ==
  Result(t, t[e.idx].value, ~is_some(t[e.idx].value))

OccupiedEntry_get_mut(t, e) ==
  Result(t, t[e.idx].value, ~is_some(t[e.idx].value))

\* faulty variant of OccupiedEntry_insert: the new value goes to a fresh node
\* and the old node is emptied
OccupiedEntry_insert_new_node(t, e, value) ==
  LET n == new_node(t, t[e.idx].prefix, Some(value))
  IN  Result([n.table EXCEPT ![e.idx].value = None], t[e.idx].value,
             ~is_some(t[e.idx].value))

OccupiedEntry_insert(t, e, value) ==
  Result([t EXCEPT ![e.idx].value = Some(value)], t[e.idx].value,
         ~is_some(t[e.idx].value))

\* faulty variant of OccupiedEntry_remove: the node's children are unlinked
OccupiedEntry_remove_unlinks(t, e) ==
  Result([t EXCEPT ![e.idx].value = None, ![e.idx].left = None, ![e.idx].right = None],
         t[e.idx].value, ~is_some(t[e.idx].value))

OccupiedEntry_remove(t, e) ==
  Result([t EXCEPT ![e.idx].value = None], t[e.idx].value,
         ~is_some(t[e.idx].value))

\* insert(key, value) is entry(key).insert(value)
map_insert(t, prefix, value) == Entry_insert(t, map_entry(t, prefix), value)

\* ------------------------------------------------------------ the program
\* table:    the arena of the one PrefixMap
\* ent:      the Entry handle that currently borrows the map, if any
\* last:     the most recent call: operation, key, argument, returned value and
\*           the direction the entry it acted on carried
\* panicked: an unwrap() or unreachable!() was hit; the program has aborted
VARIABLES table, ent, last, panicked
vars == <<table, ent, last, panicked>>

\* a call that took a closure, invoked calls times
CallF(op, key, val, ret, dir, calls) ==
  [op |-> op, key |-> key, val |-> val, ret |-> ret, dir |-> dir, calls |-> calls]

Call(op, key, val, ret, dir) == CallF(op, key, val, ret, dir, 0)

\* the closures handed to and_modify
Modifiers == [Values -> Values]

\* the direction an entry carries ("Occupied" for an occupied one)
EntryDir(e) == IF e.kind = "Occupied" THEN "Occupied" ELSE e.direction.tag

Init ==
  /\ table = EmptyMap
  /\ ent = NoEntry
  /\ last = Call("new", <<>>, None, None, "")
  /\ panicked = FALSE

\* the arena may grow by the commit that leads to t2 only while it holds fewer
\* than MaxNodes nodes
MayGrow(t1, t2) == Size(t2) > Size(t1) => Size(t1) < MaxNodes

Idle == ~panicked /\ ent.kind = "None"
Held(kind) == ~panicked /\ ent.kind = kind
HeldAny == ~panicked /\ ent.kind /= "None"

\* PrefixMap::insert
MapInsert(k, v) ==
  /\ Idle
  /\ LET r == map_insert(table, k, v) IN
     /\ MayGrow(table, r.table)
     /\ table' = r.table
     /\ panicked' = r.panic
     /\ last' = Call("insert", k, Some(v), r.ret, EntryDir(map_entry(table, k)))
  /\ UNCHANGED ent

\* PrefixMap::get
MapGet(k) ==
  /\ Idle
  /\ last' = Call("get", k, None, map_get(table, k), "")
  /\ UNCHANGED <<table, ent, panicked>>

\* PrefixMap::get_mut: the same walk, the reference is not written through
MapGetMut(k) ==
  /\ Idle
  /\ last' = Call("get_mut", k, None, map_get(table, k), "")
  /\ UNCHANGED <<table, ent, panicked>>

\* PrefixMap::entry: the handle borrows the map until it is consumed
MapEntry(k) ==
  /\ Idle
  /\ ent' = map_entry(table, k)
  /\ last' = Call("entry", k, None, None, EntryDir(map_entry(table, k)))
  /\ UNCHANGED <<table, panicked>>

\* the handle goes out of scope without a commit
EntryDrop ==
  /\ HeldAny
  /\ ent' = NoEntry
  /\ last' = Call("drop", Entry_key(table, ent), None, None, EntryDir(ent))
  /\ UNCHANGED <<table, panicked>>

\* an operation that consumes the handle
Consume(op, val, r) ==
  /\ MayGrow(table, r.table)
  /\ table' = r.table
  /\ panicked' = r.panic
  /\ ent' = NoEntry
  /\ last' = Call(op, Entry_key(table, ent), val, r.ret, EntryDir(ent))

\* an operation through &self / &mut self, which leaves the handle usable
Through(op, val, r) ==
  /\ table' = r.table
  /\ panicked' = r.panic
  /\ last' = Call(op, Entry_key(table, ent), val, r.ret, EntryDir(ent))
  /\ UNCHANGED ent

\* Entry::get
EntryGet ==
  /\ HeldAny
  /\ Through("Entry::get", None, Result(table, Entry_get(table, ent), FALSE))

\* Entry::get_mut
EntryGetMut ==
  /\ HeldAny
  /\ Through("Entry::get_mut", None, Result(table, Entry_get_mut(table, ent), FALSE))

\* Entry::key; the key is reported in last.key
EntryKey ==
  /\ HeldAny
  /\ Through("Entry::key", None, Result(table, None, FALSE))

\* Entry::and_modify: consumes the entry and returns it
EntryAndModify(f) ==
  /\ HeldAny
  /\ LET r == Entry_and_modify(table, ent, f) IN
     /\ table' = r.table
     /\ ent' = r.ent
     /\ last' = CallF("Entry::and_modify", Entry_key(table, ent), None,
                      Entry_get(r.table, r.ent), EntryDir(ent), r.calls)
  /\ UNCHANGED panicked

\* Entry::or_insert_with
EntryOrInsertWith(d) ==
  /\ HeldAny
  /\ LET r == Entry_or_insert_with(table, ent, d) IN
     /\ MayGrow(table, r.table)
     /\ table' = r.table
     /\ panicked' = r.panic
     /\ ent' = NoEntry
     /\ last' = CallF("Entry::or_insert_with", Entry_key(table, ent), Some(d),
                      r.ret, EntryDir(ent), r.calls)

\* Entry::insert
EntryInsert(v) ==
  /\ HeldAny
  /\ Consume("Entry::insert", Some(v), Entry_insert(table, ent, v))

\* Entry::or_insert
EntryOrInsert(d) ==
  /\ HeldAny
  /\ Consume("Entry::or_insert", Some(d), Entry_or_insert(table, ent, d))

\* VacantEntry::insert
VacantInsert(v) ==
  /\ Held("Vacant")
  /\ Consume("VacantEntry::insert", Some(v), VacantEntry_insert(table, ent, v))

\* OccupiedEntry::get
OccupiedGet ==
  /\ Held("Occupied")
  /\ Through("OccupiedEntry::get", None, OccupiedEntry_get(table, ent))

\* OccupiedEntry::get_mut
OccupiedGetMut ==
  /\ Held("Occupied")
  /\ Through("OccupiedEntry::get_mut", None, OccupiedEntry_get_mut(table, ent))

\* OccupiedEntry::insert
OccupiedInsert(v) ==
  /\ Held("Occupied")
  /\ Through("OccupiedEntry::insert", Some(v), OccupiedEntry_insert(table, ent, v))

\* OccupiedEntry::remove
OccupiedRemove ==
  /\ Held("Occupied")
  /\ Through("OccupiedEntry::remove", None, OccupiedEntry_remove(table, ent))

Next ==
  \/ \E k \in Keys, v \in Values : MapInsert(k, v)
  \/ \E k \in Keys : MapGet(k)
  \/ \E k \in Keys : MapGetMut(k)
  \/ \E k \in Keys : MapEntry(k)
  \/ EntryDrop
  \/ EntryGet
  \/ EntryGetMut
  \/ EntryKey
  \/ \E f \in Modifiers : EntryAndModify(f)
  \/ \E d \in Values : EntryOrInsertWith(d)
  \/ \E v \in Values : EntryInsert(v)
  \/ \E d \in Values : EntryOrInsert(d)
  \/ \E v \in Values : VacantInsert(v)
  \/ OccupiedGet
  \/ OccupiedGetMut
  \/ \E v \in Values : OccupiedInsert(v)
  \/ OccupiedRemove

Spec == Init /\ [][Next]_vars

\* ================================================================ claims
Nodes(t) == DOMAIN t
Sides == {FALSE, TRUE}
Bit(right) == IF right THEN 1 ELSE 0

\* the arena without the values: size, prefixes and child links
Shape(t) == [i \in Nodes(t) |-> <<t[i].prefix, t[i].left, t[i].right>>]

\* get(k2) is the same in t1 and t2 for every key but k
SameElsewhere(t1, t2, k) == \A k2 \in Keys \ {k} : map_get(t2, k2) = map_get(t1, k2)

CommitOps == {"insert", "Entry::insert", "Entry::or_insert", "Entry::or_insert_with",
              "VacantEntry::insert"}

\* C1: in every reachable map state, for every key k and value v, insert(k, v)
\* does not panic and get(k) afterwards is Some(v), whatever direction the
\* insertion takes.
C1_RoundTrip ==
  \A k \in Keys, v \in Values :
    LET r == map_insert(table, k, v)
    IN  ~r.panic /\ map_get(r.table, k) = Some(v)

\* an insert that synthesized a branch has just returned and its key reads back
C1_Witness ==
  /\ last.op = "insert" /\ last.dir = "NewBranch" /\ ~panicked
  /\ map_get(table, last.key) = last.val

\* C2: in every reachable map state, insert(k, v) leaves get(k2) unchanged for
\* every key k2 other than k.
C2_InsertFrame ==
  \A k \in Keys, v \in Values :
    SameElsewhere(table, map_insert(table, k, v).table, k)

\* an insert spliced a node above an existing key that still reads back
C2_Witness ==
  /\ last.op = "insert" /\ last.dir \in {"NewChild", "NewBranch"}
  /\ \E k2 \in Keys \ {last.key} : is_some(map_get(table, k2))

\* C3: insert(k, v) returns exactly what get(k) held before (Some(old) or None);
\* inserting an absent key with v1 and then v2 returns None, then Some(v1), and
\* get(k) is Some(v2) afterwards.
C3_Replacement ==
  \A k \in Keys, v1 \in Values, v2 \in Values :
    LET r1 == map_insert(table, k, v1)
        r2 == map_insert(r1.table, k, v2)
    IN  /\ r1.ret = map_get(table, k)
        /\ r2.ret = Some(v1)
        /\ map_get(r2.table, k) = Some(v2)

\* an insert has just replaced a different value and returned the old one
C3_Witness ==
  /\ last.op = "insert" /\ last.dir = "Occupied"
  /\ is_some(last.ret) /\ last.ret /= last.val
  /\ map_get(table, last.key) = last.val

\* every child hangs below its parent on the side its next bit selects
WellPlaced(t) ==
  \A i \in Nodes(t), right \in Sides :
    LET c == get_child(t, i, right) IN
    is_some(c) =>
      /\ unwrap(c) \in Nodes(t)
      /\ prefix_len(t[unwrap(c)].prefix) > prefix_len(t[i].prefix)
      /\ contains(t[i].prefix, t[unwrap(c)].prefix)
      /\ bit_at(t[unwrap(c)].prefix, prefix_len(t[i].prefix)) = Bit(right)

\* C4: after any sequence of inserts and value removals, every child's prefix
\* strictly extends its parent's, with bit 0 (left) or 1 (right) right after the
\* parent's prefix; this also holds of the arena any further insert produces.
C4_Structure ==
  /\ WellPlaced(table)
  /\ \A k \in Keys, v \in Values : WellPlaced(map_insert(table, k, v).table)

\* a node below the root has two children: a commit spliced it in
C4_Witness ==
  \E i \in Nodes(table) \ {0}, j \in Nodes(table) :
    /\ is_some(table[i].left) /\ is_some(table[i].right)
    /\ \E right \in Sides : get_child(table, j, right) = Some(i)

OccupiedOps == {"OccupiedEntry::get", "OccupiedEntry::get_mut",
                "OccupiedEntry::insert", "OccupiedEntry::remove"}

\* C5: an OccupiedEntry's node holds a value at every point of the handle's
\* life, so none of OccupiedEntry::get, get_mut, insert and remove ever unwraps
\* an absent value.
C5_NoOccupiedPanic == ~(panicked /\ last.op \in OccupiedOps)

UniquePrefixes(t) ==
  \A i \in Nodes(t), j \in Nodes(t) : t[i].prefix = t[j].prefix => i = j

\* C6: no two nodes of the arena have the same prefix, now and after any
\* further insert; a key whose prefix some node already has (a valueless branch
\* or a node whose value was removed) is resolved to that node with direction
\* Reached.
C6_UniquePrefixes ==
  /\ UniquePrefixes(table)
  /\ \A k \in Keys, v \in Values : UniquePrefixes(map_insert(table, k, v).table)
  /\ \A k \in Keys, i \in Nodes(table) :
       table[i].prefix = k =>
         walk(table, 0, k) = [idx |-> i, direction |-> Reached]

\* a key was re-inserted into the node whose value had been removed, below a
\* synthesized branch
C6_Witness ==
  /\ last.op \in CommitOps /\ last.dir = "Reached" /\ last.key /= <<>>
  /\ \E i \in Nodes(table) : i /= 0 /\ ~is_some(table[i].value)
                             /\ table[i].prefix /= last.key

HoldsValue(t, k) == \E i \in Nodes(t) : t[i].prefix = k /\ is_some(t[i].value)

\* C8: entry(k) is Occupied exactly when a node with prefix k holds a value,
\* which is exactly when get(k) is Some; otherwise it is Vacant, and Entry::get
\* of the entry agrees with get(k).
C8_EntryClassification ==
  \A k \in Keys :
    LET e == map_entry(table, k) IN
    /\ e.kind \in {"Occupied", "Vacant"}
    /\ e.kind = "Occupied" <=> HoldsValue(table, k)
    /\ e.kind = "Occupied" <=> is_some(map_get(table, k))
    /\ Entry_get(table, e) = map_get(table, k)
    /\ Entry_key(table, e) = k

\* entry(k) came back Vacant with direction Reached: the node exists, its
\* value was removed
C8_Witness ==
  /\ ent.kind = "Vacant" /\ ent.direction.tag = "Reached" /\ ent.idx /= 0
  /\ last.op = "entry" /\ table[ent.idx].prefix = ent.prefix
  /\ ~is_some(table[ent.idx].value)

\* C9: entry(k).or_insert(d) returns the stored value and leaves the map as it
\* was when k holds one, else stores d and returns it; afterwards get(k) is the
\* returned value and every other key reads as before.
C9_OrInsert ==
  \A k \in Keys, d \in Values :
    LET r == Entry_or_insert(table, map_entry(table, k), d) IN
    /\ ~r.panic
    /\ IF is_some(map_get(table, k))
       THEN r.ret = map_get(table, k) /\ r.table = table
       ELSE r.ret = Some(d)
    /\ map_get(r.table, k) = r.ret
    /\ SameElsewhere(table, r.table, k)

\* or_insert returned the stored value, not the default it was given
C9_Witness ==
  /\ last.op = "Entry::or_insert" /\ last.dir = "Occupied"
  /\ last.ret /= last.val /\ map_get(table, last.key) = last.ret

\* C10: OccupiedEntry::remove on k1 returns the stored value, get(k1) is None
\* afterwards, the arena keeps its size, prefixes and child links and every
\* other key reads as before; insert(k1, y) then returns None, changes neither
\* size, prefixes nor child links, and get(k1) is Some(y).
C10_RemoveKeepsNode ==
  \A k1 \in Keys :
    LET e == map_entry(table, k1) IN
    e.kind = "Occupied" =>
      LET r == OccupiedEntry_remove(table, e) IN
      /\ ~r.panic
      /\ r.ret = map_get(table, k1)
      /\ map_get(r.table, k1) = None
      /\ Shape(r.table) = Shape(table)
      /\ SameElsewhere(table, r.table, k1)
      /\ \A y \in Values :
           LET r2 == map_insert(r.table, k1, y) IN
           /\ r2.ret = None
           /\ Shape(r2.table) = Shape(table)
           /\ map_get(r2.table, k1) = Some(y)

\* a value was removed from a node that has a descendant holding a value
C10_Witness ==
  /\ last.op = "OccupiedEntry::remove" /\ ent.kind = "Occupied" /\ ~panicked
  /\ ~is_some(table[ent.idx].value)
  /\ \E k2 \in Keys : /\ k2 /= last.key /\ contains(last.key, k2)
                      /\ is_some(map_get(table, k2))

\* a node with prefix k that holds no value and has both children
ValuelessBranch(t, k) ==
  \E i \in Nodes(t) :
    /\ t[i].prefix = k
    /\ ~is_some(t[i].value)
    /\ is_some(t[i].left)
    /\ is_some(t[i].right)

\* p is a proper ancestor of q
StrictlyContains(p, q) == p /= q /\ contains(p, q)

\* C11: lookup is exact-match. In every reachable map state, get(a) and
\* entry(a).get() are None for every key a that holds no value, whatever values
\* its ancestors and descendants hold and whether or not a valueless node with
\* prefix a exists; and after insert(b, v), get(a) is still None for every
\* other key a that held no value (from the empty map: inserting only b leaves
\* every other key absent).
C11_ExactMatch ==
  /\ \A a \in Keys :
       ~HoldsValue(table, a) =>
         /\ map_get(table, a) = None
         /\ Entry_get(table, map_entry(table, a)) = None
  /\ \A b \in Keys, v \in Values :
       LET t2 == map_insert(table, b, v).table IN
       \A a \in Keys \ {b} :
         ~HoldsValue(table, a) => map_get(t2, a) = None

\* get(a) returned None for a key that is a valueless branch node, below an
\* ancestor holding a value and above a descendant holding a value
C11_Witness ==
  /\ last.op = "get"
  /\ last.ret = None
  /\ ValuelessBranch(table, last.key)
  /\ \E b \in Keys : StrictlyContains(b, last.key) /\ HoldsValue(table, b)
  /\ \E c \in Keys : StrictlyContains(last.key, c) /\ HoldsValue(table, c)

\* C12: in every reachable map state, for every key k without a value and
\* every closure f, entry(k).and_modify(f) does not call f, returns the same
\* Vacant entry, and leaves the arena as it was: same size, same prefixes,
\* same child links, same values.
C12_AndModifyAbsent ==
  \A k \in Keys, f \in Modifiers :
    ~is_some(map_get(table, k)) =>
      LET e == map_entry(table, k)
          r == Entry_and_modify(table, e, f)
      IN  /\ r.calls = 0
          /\ r.ent.kind = "Vacant"
          /\ r.ent = e
          /\ r.table = table

\* and_modify was called on a vacant entry below a node that holds a value,
\* with a closure that would have changed that value
C12_Witness ==
  /\ last.op = "Entry::and_modify"
  /\ last.dir \in {"NewLeaf", "NewChild", "NewBranch"}
  /\ last.calls = 0
  /\ ent.kind = "Vacant"
  /\ is_some(table[ent.idx].value)

\* nodes a commit allocates, by the direction the entry carries
Growth(dir) ==
  CASE dir \in {"Occupied", "Reached"} -> 0
    [] dir \in {"NewLeaf", "NewChild"} -> 1
    [] dir = "NewBranch"               -> 2

\* C13: in every reachable map state, for every key and value, committing
\* entry(k) by insert, or_insert or or_insert_with grows the arena by exactly 0
\* nodes when the entry is Occupied or Vacant-Reached, 1 for NewLeaf and
\* NewChild, 2 for NewBranch (one valueless branch node and the key's node);
\* the old nodes keep their indices, and removing a value or modifying it
\* leaves the size as it is, so the arena never shrinks.
C13_AllocationCount ==
  /\ \A k \in Keys, v \in Values :
       LET e  == map_entry(table, k)
           g  == Growth(EntryDir(e))
           r1 == Entry_insert(table, e, v).table
           r2 == Entry_or_insert(table, e, v).table
           r3 == Entry_or_insert_with(table, e, v).table
       IN  /\ Size(r1) = Size(table) + g
           /\ Size(r2) = Size(table) + g
           /\ Size(r3) = Size(table) + g
           /\ EntryDir(e) = "NewBranch" =>
                \E b, n \in Nodes(r1) \ Nodes(table) :
                  /\ b /= n
                  /\ r1[b].value = None
                  /\ r1[n].value = Some(v)
                  /\ r1[n].prefix = k
  /\ \A i \in Nodes(table) :
       /\ is_some(table[i].value) =>
            Size(OccupiedEntry_remove(table, OccupiedEntry(i)).table) = Size(table)
       /\ \A f \in Modifiers :
            Size(Entry_and_modify(table, OccupiedEntry(i), f).table) = Size(table)

\* a commit took the NewBranch direction and the arena grew from 2 to 4 nodes
C13_Witness ==
  /\ last.op \in CommitOps
  /\ last.dir = "NewBranch"
  /\ Size(table) = 4

AllocatingDirs == {"NewLeaf", "NewChild", "NewBranch"}

\* C14: a step changes the structure of the arena (node count, prefixes or
\* child links) only if it is the commit of a Vacant entry that is not Reached;
\* get, get_mut, entry, dropping an entry, Entry::get/get_mut/key/and_modify,
\* every operation on an Occupied entry and a Reached commit leave the
\* structure as it was.
C14_StructureFrame ==
  [][Shape(table') /= Shape(table) =>
       (last'.op \in CommitOps /\ last'.dir \in AllocatingDirs)]_vars

\* a value was removed through an Occupied entry from a node that has a child,
\* and the node and its child link are still there
C14_Witness ==
  /\ last.op = "OccupiedEntry::remove"
  /\ ent.kind = "Occupied"
  /\ table[ent.idx].value = None
  /\ is_some(table[ent.idx].left) \/ is_some(table[ent.idx].right)

\* C15: in every reachable map state, for every key k and every value d the
\* closure would return, entry(k).or_insert_with(f) and entry(k).or_default()
\* invoke the closure exactly once when the entry is Vacant, and never when it
\* is Occupied, where the stored value is returned and the map is unchanged.
C15_LazyDefault ==
  \A k \in Keys, d \in Values :
    LET e  == map_entry(table, k)
        r  == Entry_or_insert_with(table, e, d)
        r0 == Entry_or_default(table, e)
    IN  IF e.kind = "Vacant"
        THEN /\ r.calls = 1
             /\ r.ret = Some(d)
             /\ r0.calls = 1
             /\ r0.ret = Some(DefaultValue)
        ELSE /\ r.calls = 0
             /\ r.ret = table[e.idx].value
             /\ r.table = table
             /\ r0.calls = 0
             /\ r0.ret = table[e.idx].value
             /\ r0.table = table

\* or_insert_with met an Occupied entry: the closure was not called and the
\* stored value, which differs from the default, was returned
C15_Witness ==
  /\ last.op = "Entry::or_insert_with"
  /\ last.dir = "Occupied"
  /\ last.calls = 0
  /\ last.ret /= last.val
  /\ map_get(table, last.key) = last.ret

TerminalDirs == {"Reached", "NewLeaf", "NewChild", "NewBranch"}

\* the walk for prefix from idx takes at most fuel Enter steps, each to a node
\* with a strictly longer prefix, and then yields a terminal direction
RECURSIVE walk_ends(_, _, _, _)
walk_ends(t, idx, prefix, fuel) ==
  LET d == get_direction_for_insert(t, idx, prefix) IN
  IF d.tag = "Enter"
  THEN /\ fuel > 0
       /\ prefix_len(t[d.next].prefix) > prefix_len(t[idx].prefix)
       /\ walk_ends(t, d.next, prefix, fuel - 1)
  ELSE d.tag \in TerminalDirs

\* C16: in every reachable map state, and in the state after any insert, the
\* walk of entry(k) for every key k takes at most len(k) Enter steps, each to a
\* node with a strictly longer prefix, and stops with one of Reached, NewLeaf,
\* NewChild, NewBranch; a Vacant entry never carries Enter, so the
\* unreachable!() arm of the commit is never executed.
C16_WalkTerminates ==
  /\ \A k \in Keys : walk_ends(table, 0, k, prefix_len(k))
  /\ \A k \in Keys, v \in Values :
       LET t2 == map_insert(table, k, v).table IN
       \A k2 \in Keys : walk_ends(t2, 0, k2, prefix_len(k2))
  /\ ent.kind = "Vacant" =>
       /\ ent.direction.tag \in TerminalDirs
       /\ \A v \in Values :
            VacantEntry__insert(table, ent, v) /= Commit(table, ent.idx, TRUE)

\* entry(k) returned a Vacant entry after the walk entered at least one child
C16_Witness ==
  /\ last.op = "entry"
  /\ ent.kind = "Vacant"
  /\ ent.idx /= 0
  /\ get_direction_for_insert(table, 0, last.key).tag = "Enter"
  /\ ent.direction.tag \in {"NewLeaf", "NewChild", "NewBranch"}

\* C17: in every reachable map state, for every key k and value v whose entry
\* is Vacant with direction NewBranch at node idx, where c is the child of idx
\* on side right: after the commit the child of idx on side right is a new
\* valueless node whose prefix is the longest common prefix of k and c's
\* prefix, strictly longer than idx's prefix and strictly shorter than both;
\* its child on side prefix_right is the new node of k holding v, its other
\* child is c; c, its subtree and every other old node are unchanged, and so
\* is the other child of idx.
C17_NewBranch ==
  \A k \in Keys, v \in Values :
    LET e == map_entry(table, k) IN
    (e.kind = "Vacant" /\ e.direction.tag = "NewBranch") =>
      LET d  == e.direction
          c  == unwrap(get_child(table, e.idx, d.right))
          r  == VacantEntry__insert(table, e, v)
          t2 == r.table
          b  == unwrap(get_child(t2, e.idx, d.right))
          bp == t2[b].prefix
      IN  /\ ~r.panic
          /\ is_some(get_child(t2, e.idx, d.right))
          /\ b \notin Nodes(table)
          /\ t2[b].value = None
          /\ bp = longest_common_prefix(k, table[c].prefix)
          /\ prefix_len(bp) > prefix_len(table[e.idx].prefix)
          /\ prefix_len(bp) < prefix_len(k)
          /\ prefix_len(bp) < prefix_len(table[c].prefix)
          /\ d.aux = (bit_at(k, prefix_len(bp)) = 1)
          /\ get_child(t2, b, d.aux) = Some(r.node)
          /\ r.node \notin Nodes(table) \cup {b}
          /\ t2[r.node] = Node(k, Some(v))
          /\ get_child(t2, b, ~d.aux) = Some(c)
          /\ \A i \in Nodes(table) \ {e.idx} : t2[i] = table[i]
          /\ t2[e.idx].prefix = table[e.idx].prefix
          /\ t2[e.idx].value = table[e.idx].value
          /\ get_child(t2, e.idx, ~d.right) = get_child(table, e.idx, ~d.right)

\* a NewBranch commit happened: the key's node hangs below a valueless node
\* with two children, whose other child holds a value of its own
C17_Witness ==
  /\ last.op \in CommitOps
  /\ last.dir = "NewBranch"
  /\ \E b \in Nodes(table), n \in Nodes(table), right \in Sides :
       /\ table[b].value = None
       /\ get_child(table, b, right) = Some(n)
       /\ table[n] = Node(last.key, last.val)
       /\ is_some(get_child(table, b, ~right))
       /\ is_some(table[unwrap(get_child(table, b, ~right))].value)
       /\ \E s \in Sides : get_child(table, 0, s) = Some(b)

\* the direction a Vacant entry carries describes the arena t
Matches(t, e) ==
  CASE e.direction.tag = "Reached" ->
         t[e.idx].prefix = e.prefix /\ t[e.idx].value = None
    [] e.direction.tag = "NewLeaf" ->
         ~is_some(get_child(t, e.idx, e.direction.right))
    [] e.direction.tag \in {"NewChild", "NewBranch"} ->
         is_some(get_child(t, e.idx, e.direction.right))
    [] OTHER -> FALSE

\* C18: whenever a Vacant entry exists, from entry(k) until it is committed or
\* dropped, the direction it carries describes the arena: NewLeaf, no child of
\* idx on side right; NewChild and NewBranch, a child of idx on side right;
\* Reached, the node at idx has the key as prefix and holds no value. So no
\* commit panics on set_child(..).unwrap().
C18_DirectionMatches ==
  /\ \A k \in Keys :
       LET e == map_entry(table, k) IN e.kind = "Vacant" => Matches(table, e)
  /\ ent.kind = "Vacant" =>
       /\ Matches(table, ent)
       /\ \A v \in Values : ~VacantEntry__insert(table, ent, v).panic
  /\ ~(panicked /\ last.op \in CommitOps)

\* a Vacant entry with direction NewChild was committed without a panic after
\* the map had been built up by earlier commits
C18_Witness ==
  /\ last.op = "VacantEntry::insert"
  /\ last.dir = "NewChild"
  /\ ~panicked
  /\ map_get(table, last.key) = last.val
  /\ Size(table) = 3

\* the (node, side) slots of t that point to node i
ParentSlots(t, i) ==
  {s \in Nodes(t) \X Sides : get_child(t, s[1], s[2]) = Some(i)}

\* the children of the nodes in S
ChildrenOf(t, S) ==
  UNION {{unwrap(c) : c \in {x \in {t[i].left, t[i].right} : is_some(x)}} : i \in S}

\* the nodes reached from S in at most fuel steps down
RECURSIVE ReachedFrom(_, _, _)
ReachedFrom(t, S, fuel) ==
  LET S2 == S \cup ChildrenOf(t, S) IN
  IF fuel = 0 \/ S2 = S THEN S ELSE ReachedFrom(t, S2, fuel - 1)

\* the proper descendants of node i
Descendants(t, i) == ReachedFrom(t, ChildrenOf(t, {i}), Size(t))

\* t is one tree rooted at node 0
OneTree(t) ==
  /\ 0 \in Nodes(t)
  /\ t[0].prefix = <<>>
  /\ ParentSlots(t, 0) = {}
  /\ \A i \in Nodes(t), right \in Sides :
       is_some(get_child(t, i, right)) => unwrap(get_child(t, i, right)) \in Nodes(t)
  /\ ReachedFrom(t, {0}, Size(t)) = Nodes(t)
  /\ \A i \in Nodes(t) \ {0} : Cardinality(ParentSlots(t, i)) = 1
  /\ \A i \in Nodes(t) : i \notin Descendants(t, i)

\* C19: in every reachable map state, and in the state after any insert, the
\* arena is one tree rooted at index 0: node 0 is the empty-prefix root and no
\* slot points to it, every child link points into the arena, every node is
\* reachable from node 0, every other node is the child of exactly one
\* (node, side) slot, and no node is its own descendant.
C19_OneTree ==
  /\ OneTree(table)
  /\ \A k \in Keys, v \in Values : OneTree(map_insert(table, k, v).table)

\* a NewChild commit has re-parented a node: the key's node hangs below the
\* root and the node that was there hangs below the key's node
C19_Witness ==
  /\ last.op \in CommitOps
  /\ last.dir = "NewChild"
  /\ \E n \in Nodes(table), c \in Nodes(table) :
       /\ table[n].prefix = last.key
       /\ ParentSlots(table, n) \subseteq {0} \X Sides
       /\ ParentSlots(table, c) \subseteq {n} \X Sides
       /\ ParentSlots(table, c) /= {}
       /\ c < n

\* ------------------------------------------------------------ insertion only
\* the program restricted to insert calls on a map that starts empty
NextInserts == \E k \in Keys, v \in Values : MapInsert(k, v)

SpecInserts == Init /\ [][NextInserts]_vars

\* the prefix of the node a child link points to
ChildPrefix(t, c) == IF is_some(c) THEN Some(t[unwrap(c)].prefix) ELSE None

\* the trie without its arena indices: for every node its prefix, its value
\* and the prefixes of its left and right children
Canon(t) ==
  {[prefix |-> t[i].prefix, value |-> t[i].value,
    left |-> ChildPrefix(t, t[i].left), right |-> ChildPrefix(t, t[i].right)] :
     i \in Nodes(t)}

\* t1 and t2 are the same trie up to a renaming of arena indices
SameTrie(t1, t2) == Size(t1) = Size(t2) /\ Canon(t1) = Canon(t2)

\* the elements of S in one fixed order
RECURSIVE SetToSeq(_)
SetToSeq(S) ==
  IF S = {} THEN <<>>
  ELSE LET x == CHOOSE y \in S : TRUE IN <<x>> \o SetToSeq(S \ {x})

KeyOrder == SetToSeq(Keys)

\* the keys of KeyOrder from position i on that hold a value in t, inserted
\* with those values into t0 in that order
RECURSIVE InsertFrom(_, _, _)
InsertFrom(t0, t, i) ==
  IF i > Len(KeyOrder) THEN t0
  ELSE LET k == KeyOrder[i]
           v == map_get(t, k)
       IN  IF is_some(v)
           THEN InsertFrom(map_insert(t0, k, unwrap(v)).table, t, i + 1)
           ELSE InsertFrom(t0, t, i + 1)

\* the contents of t inserted into an empty map in the fixed order
Rebuild(t) == InsertFrom(EmptyMap, t, 1)

\* C20: whatever the order in which distinct keys were inserted into the empty
\* map, the trie is, up to a renaming of arena indices, the one that inserting
\* the same keys and values in one fixed order yields: same node prefixes,
\* same value or absence at each prefix, same left/right child relation; and
\* two further inserts of distinct keys commute up to that renaming.
C20_OrderIndependence ==
  /\ SameTrie(table, Rebuild(table))
  /\ \A k1 \in Keys, k2 \in Keys, v1 \in Values, v2 \in Values :
       k1 /= k2 =>
       SameTrie(map_insert(map_insert(table, k1, v1).table, k2, v2).table,
                map_insert(map_insert(table, k2, v2).table, k1, v1).table)

\* two keys were inserted so that a branch node was made, in an order that
\* numbers the nodes differently from the fixed order
C20_Witness ==
  /\ last.op = "insert"
  /\ last.dir = "NewBranch"
  /\ Size(table) = 4
  /\ table /= Rebuild(table)
  /\ Canon(table) = Canon(Rebuild(table))

====
